---- MODULE Spec2Model ----
\* A model of PyChunkedGraph's local mincut (backend/cutting.py) and of the
\* edit request handlers (app/segmentation/common.py).
EXTENDS Integers, Sequences, FiniteSets, TLC

\* ---------------------------------------------------------------------------
\* Bounds of the model
\* ---------------------------------------------------------------------------
MaxEdges == 3
MaxTerminals == 3
MaxChunk == 4
MaxLog == 2

\* ---------------------------------------------------------------------------
\* Values
\* ---------------------------------------------------------------------------
\* np.inf, the affinity of a cross chunk edge (np.isinf, cutting.py:21)
Inf == 1000
\* np.finfo(np.float32).max (cutting.py:10)
float_max == 999

\* supervoxel ids of the inputs
Nodes == {1, 2, 3, 4}
\* finite affinities used by the inputs
Weights == {1, 10}
AffValues == Weights \cup {Inf}
\* a row of `edges`: a pair of distinct supervoxel ids, lower id first
Rows == {r \in Nodes \X Nodes : r[1] < r[2]}

\* state of a mincut call
VARIABLES edges, affs, sources, sinks, ret, pc
\* state of the request handlers: the request being served and the handler's
\* position, the result of the edit call, the response, the calls made while
\* serving the request, the remesh events published so far, the operation
\* log of the graph, the per-application context (current_app) and the
\* sizes of log and published at the start of the request
VARIABLES req, hpc, result, response, trace, published, log, app, snap
\* the operations a rollback still has to undo
VARIABLES operations
\* the worker threads of the server process: the request each one serves,
\* its position in it, and what its after_request hook read from current_app
VARIABLES workers

cutVars == <<edges, affs, sources, sinks, ret, pc>>
handlerVars ==
    <<req, hpc, result, response, trace, published, log, app, snap, operations>>
vars == <<cutVars, handlerVars, workers>>

\* ---------------------------------------------------------------------------
\* Helpers: sequences and graphs
\* ---------------------------------------------------------------------------
Range(s) == {s[i] : i \in DOMAIN s}

\* the indices of s, in order, for which keep[i] holds
RECURSIVE KeptIndices(_, _)
KeptIndices(keep, n) ==
    IF n = 0 THEN <<>>
    ELSE IF keep[n] THEN Append(KeptIndices(keep, n - 1), n)
         ELSE KeptIndices(keep, n - 1)

\* boolean-mask indexing of a numpy array: s[keep]
MaskSelect(s, keep) ==
    LET idx == KeptIndices(keep, Len(s))
    IN  [k \in 1..Len(idx) |-> s[idx[k]]]

\* nodes reachable from the set `seen` over the undirected edges E
\* (E is a set of ordered pairs, read without orientation)
RECURSIVE ReachFrom(_, _)
ReachFrom(E, seen) ==
    LET more == {e[2] : e \in {x \in E : x[1] \in seen}}
                \cup {e[1] : e \in {x \in E : x[2] \in seen}}
    IN  IF more \subseteq seen THEN seen ELSE ReachFrom(E, seen \cup more)

\* nx.connected_components of the graph with nodes N and edges E
connected_components(N, E) == {ReachFrom(E, {n}) : n \in N}

Min(S) == CHOOSE m \in S : \A x \in S : m <= x

\* ---------------------------------------------------------------------------
\* merge_cross_chunk_edges
\* ---------------------------------------------------------------------------
\* np.isinf left out: no affinity is taken for a cross chunk edge
isinf_never(a) == FALSE

isinf(a) == a = Inf

cross_chunk_edge_mask(a) == [i \in DOMAIN a |-> isinf(a[i])]

\* the highest id of the component taken as its representative
ComponentRowsMax(cc) == {<<n, CHOOSE x \in cc : \A y \in cc : y <= x>> : n \in cc}

\* rows (node, representative) of a cross chunk component
ComponentRows(cc) == {<<n, Min(cc)>> : n \in cc}

\* value of the second column at the row whose first column is n
\* (np.searchsorted on the sorted first column)
MappingLookup(mapping, n) == (CHOOSE m \in mapping : m[1] = n)[2]

merge_cross_chunk_edges(e, a) ==
    LET mask == cross_chunk_edge_mask(a)
        cross_edges == Range(MaskSelect(e, mask))
        cross_nodes == {r[1] : r \in cross_edges} \cup {r[2] : r \in cross_edges}
        ccs == connected_components(cross_nodes, cross_edges)
        remapping == [rep \in {Min(cc) : cc \in ccs} |->
                        CHOOSE cc \in ccs : Min(cc) = rep]
        cc_mapping == UNION {ComponentRows(cc) : cc \in ccs}
        u_nodes == {r[1] : r \in Range(e)} \cup {r[2] : r \in Range(e)}
        u_unmapped_nodes ==
            {n \in u_nodes : n \notin ({m[1] : m \in cc_mapping}
                                       \cup {m[2] : m \in cc_mapping})}
        mapping == cc_mapping \cup {<<n, n>> : n \in u_unmapped_nodes}
        remapped_edges == [i \in DOMAIN e |->
                             <<MappingLookup(mapping, e[i][1]),
                               MappingLookup(mapping, e[i][2])>>]
        notmask == [i \in DOMAIN a |-> ~mask[i]]
    IN  [edges |-> MaskSelect(remapped_edges, notmask),
         affs |-> MaskSelect(a, notmask),
         mapping |-> mapping,
         remapping |-> remapping]

\* ---------------------------------------------------------------------------
\* mincut
\* ---------------------------------------------------------------------------
\* an edge of the undirected nx.Graph, whatever the order it was added in
Und(u, v) == IF u <= v THEN <<u, v>> ELSE <<v, u>>

Max(S) == CHOOSE m \in S : \A x \in S : x <= m

\* mapping_dict[t] if t is a key of the mapping, t itself otherwise
RemapTerminal(mapping, t) ==
    IF \E m \in mapping : m[1] = t THEN MappingLookup(mapping, t) ELSE t

\* the graph built without the first remapped row
weighted_graph_skip_first(e, a, srcs, snks) ==
    LET rows == DOMAIN e \ {1}
        weighted == {Und(e[i][1], e[i][2]) : i \in rows}
        sink_connections == {Und(x, y) : x \in Range(snks), y \in Range(snks)}
        source_connections == {Und(x, y) : x \in Range(srcs), y \in Range(srcs)}
        E == weighted \cup sink_connections \cup source_connections
    IN  [nodes |-> {x[1] : x \in E} \cup {x[2] : x \in E},
         edges |-> E,
         capacity |-> [k \in E |->
            IF k \in sink_connections \cup source_connections
            THEN float_max
            ELSE a[Max({i \in rows : Und(e[i][1], e[i][2]) = k})]]]

\* the nx.Graph built from the remapped edges and terminals, with the
\* 'capacity' attribute of every edge
weighted_graph(e, a, srcs, snks) ==
    LET weighted == {Und(e[i][1], e[i][2]) : i \in DOMAIN e}
        sink_connections == {Und(x, y) : x \in Range(snks), y \in Range(snks)}
        source_connections == {Und(x, y) : x \in Range(srcs), y \in Range(srcs)}
        E == weighted \cup sink_connections \cup source_connections
    IN  [nodes |-> {x[1] : x \in E} \cup {x[2] : x \in E},
         edges |-> E,
         capacity |-> [k \in E |->
            IF k \in sink_connections \cup source_connections
            THEN float_max
            ELSE a[Max({i \in DOMAIN e : Und(e[i][1], e[i][2]) = k})]]]

\* the check with `and` for `or`: a source and a sink must both be missing
DifferentComponentsBoth(cc, srcs, snks) ==
    /\ (\E s \in Range(srcs) : s \in cc) \/ (\E t \in Range(snks) : t \in cc)
    /\ (\E s \in Range(srcs) : s \notin cc) /\ (\E t \in Range(snks) : t \notin cc)

\* a component that holds a terminal and misses a source or a sink
DifferentComponents(cc, srcs, snks) ==
    /\ (\E s \in Range(srcs) : s \in cc) \/ (\E t \in Range(snks) : t \in cc)
    /\ (\E s \in Range(srcs) : s \notin cc) \/ (\E t \in Range(snks) : t \notin cc)

\* a component that holds neither a source nor a sink (removed from the graph)
NoTerminal(cc, srcs, snks) ==
    ~((\E s \in Range(srcs) : s \in cc) \/ (\E t \in Range(snks) : t \in cc))

\* edges of E with exactly one endpoint in T
CrossingEdges(E, T) == {x \in E : (x[1] \in T) # (x[2] \in T)}

\* nx.minimum_edge_cut(G, s, t, flow_func=edmonds_karp) for s # t.  networkx
\* builds the auxiliary digraph of G with capacity 1 on every arc (the
\* 'capacity' attribute of G is not read), computes a maximum flow and takes
\* as sink side the nodes that still reach t in the residual network; that
\* set is the smallest sink side among the cuts of minimum cardinality.
\* The result is the set of arcs (u, v) from the source side to the sink side.
minimum_edge_cut(N, E, s, t) ==
    LET sides == {T \in SUBSET (N \ {s}) : t \in T}
        size == [T \in sides |-> Cardinality(CrossingEdges(E, T))]
        k == Min({size[T] : T \in sides})
        non_reachable == {n \in N : \A T \in sides : size[T] = k => n \in T}
    IN  {c \in (N \ non_reachable) \X non_reachable : Und(c[1], c[2]) \in E}

\* the original nodes behind a representative
PreImage(remapping, rep) ==
    IF rep \in DOMAIN remapping THEN remapping[rep] ELSE {rep}

\* only the product (pre_cut, post_cut), the reversed rows left out
ExpandCutOneWay(remapping, cut) ==
    PreImage(remapping, cut[1]) \X PreImage(remapping, cut[2])

\* the rows tried for one cut edge: both products of the two groups
ExpandCut(remapping, cut) ==
    (PreImage(remapping, cut[1]) \X PreImage(remapping, cut[2]))
    \cup (PreImage(remapping, cut[2]) \X PreImage(remapping, cut[1]))

NoCut == {}

\* the early return left out: the graph is built whatever the edges
NoWeightedEdgesNever(e) == FALSE

\* len(edges) == 0 after merge_cross_chunk_edges
NoWeightedEdges(e) == Len(e) = 0

\* what a call of mincut yields: how it ended, the rows returned, the cut of
\* the coalesced graph, whether the flow computation ran, and the mapping
Outcome(o, cut, cutset, flow, mapping) ==
    [outcome |-> o, cut |-> cut, cutset |-> cutset, flow |-> flow,
     mapping |-> mapping]

mincut(e, a, srcs, snks) ==
    LET m == merge_cross_chunk_edges(e, a)
        remapped_sinks == [i \in DOMAIN snks |-> RemapTerminal(m.mapping, snks[i])]
        remapped_sources == [i \in DOMAIN srcs |-> RemapTerminal(m.mapping, srcs[i])]
        G == weighted_graph(m.edges, m.affs, remapped_sources, remapped_sinks)
        ccs == connected_components(G.nodes, G.edges)
        kept == UNION {cc \in ccs : ~NoTerminal(cc, remapped_sources, remapped_sinks)}
        keptE == {x \in G.edges : x[1] \in kept /\ x[2] \in kept}
        cutset == minimum_edge_cut(kept, keptE, remapped_sources[1], remapped_sinks[1])
        remapped_cutset == UNION {ExpandCut(m.remapping, c) : c \in cutset}
    IN  IF NoWeightedEdges(m.edges)
        THEN Outcome("no_edges", NoCut, NoCut, FALSE, m.mapping)
        ELSE IF \E x \in m.mapping, y \in m.mapping : x[1] = y[1] /\ x # y
        THEN Outcome("AssertionError", NoCut, NoCut, FALSE, m.mapping)
        ELSE IF \E cc \in ccs :
                    DifferentComponents(cc, remapped_sources, remapped_sinks)
        THEN Outcome("disconnected", NoCut, NoCut, FALSE, m.mapping)
        ELSE IF remapped_sources[1] = remapped_sinks[1]
        THEN Outcome("NetworkXError", NoCut, NoCut, TRUE, m.mapping)
        ELSE IF cutset = {}
        THEN Outcome("IndexError", NoCut, cutset, TRUE, m.mapping)
        ELSE Outcome("cut", {p \in remapped_cutset : p \in Range(e)},
                     cutset, TRUE, m.mapping)

\* ---------------------------------------------------------------------------
\* Calls of mincut on bounded inputs
\* ---------------------------------------------------------------------------
RowBefore(r, q) == r[1] < q[1] \/ (r[1] = q[1] /\ r[2] < q[2])

\* edge lists without repeated rows, rows in ascending order
AscendingEdgeLists ==
    {s \in UNION {[1..n -> Rows] : n \in 0..MaxEdges} :
        \A i \in DOMAIN s, j \in DOMAIN s : i < j => RowBefore(s[i], s[j])}

\* the same rows, each given as (higher id, lower id)
Reversed(s) == [i \in DOMAIN s |-> <<s[i][2], s[i][1]>>]

EdgeLists == AscendingEdgeLists \cup {Reversed(s) : s \in AscendingEdgeLists}

\* lists of distinct terminals
TerminalLists ==
    {s \in UNION {[1..n -> Nodes] : n \in 1..(MaxTerminals - 1)} :
        \A i \in DOMAIN s, j \in DOMAIN s : i # j => s[i] # s[j]}

NoRet == Outcome("none", NoCut, NoCut, FALSE, {})

\* ---------------------------------------------------------------------------
\* Values of the request handlers
\* ---------------------------------------------------------------------------
Users == {"alice", "bob"}
Tables == {"fly_v26", "fly_v31", "fly_v30"}
Kinds == {"merge", "split", "undo", "redo", "rollback"}

NoChunk == <<0, 0, 0>>
NoReq == [kind |-> "none", table |-> "", user |-> "", priority |-> "absent",
          operation_id |-> 0, chunks |-> <<NoChunk, NoChunk>>,
          target |-> "", start_time |-> 0]
NoResult == [operation_id |-> 0, roots_none |-> FALSE,
             new_root_ids |-> <<>>, new_lvl2_ids |-> <<>>]
NoResponse == [status |-> "none", msg |-> ""]
NoApp == [user_id |-> "None", table_id |-> "None"]

\* operation logs the graph may hold when the server starts: entry i was
\* written at time i by a merge or by the undo of an earlier entry
InitLogs ==
    {l \in UNION {[1..n -> [user : Users, timestamp : 1..MaxLog,
                            kind : {"merge", "undo"}, of : 0..MaxLog]] :
                    n \in 0..MaxLog} :
        \A i \in DOMAIN l :
            /\ l[i].timestamp = i
            /\ l[i].kind = "merge" => l[i].of = 0
            /\ l[i].kind = "undo" => l[i].of \in 1..(i - 1)}

\* the threads that serve requests side by side in one process
Workers == {"w1", "w2"}

NoLogged == [written |-> FALSE, user_id |-> "", table_id |-> ""]

WorkersIdle ==
    [w \in Workers |-> [pc |-> "idle", user |-> "", table |-> "",
                        logged |-> NoLogged]]

HandlersIdle ==
    /\ req = NoReq
    /\ hpc = "idle"
    /\ result = NoResult
    /\ response = NoResponse
    /\ trace = <<>>
    /\ published = <<>>
    /\ app = NoApp
    /\ snap = [log |-> 0, published |-> 0, served |-> 0]
    /\ operations = <<>>

InitMincut ==
    /\ HandlersIdle
    /\ workers = WorkersIdle
    /\ log = <<>>
    /\ pc = "call"
    /\ ret = NoRet
    /\ edges \in EdgeLists
    /\ affs \in [DOMAIN edges -> AffValues]
    /\ sources \in TerminalLists
    /\ sinks \in TerminalLists
    /\ Len(sources) + Len(sinks) <= MaxTerminals

CallMincut ==
    /\ pc = "call"
    /\ ret' = mincut(edges, affs, sources, sinks)
    /\ pc' = "done"
    /\ UNCHANGED <<edges, affs, sources, sinks>>
    /\ UNCHANGED handlerVars
    /\ UNCHANGED workers

NextMincut == CallMincut

SpecMincut == InitMincut /\ [][NextMincut]_vars

\* ---------------------------------------------------------------------------
\* Properties of mincut
\* ---------------------------------------------------------------------------
Returned == pc = "done" /\ ret.outcome = "cut"

\* the input rows left once the returned rows are removed
RemainingEdges == Range(edges) \ ret.cut

\* the rows with infinite affinity
CrossRows == {edges[i] : i \in {j \in DOMAIN edges : affs[j] = Inf}}

\* sum of the affinities of the rows with indices in I
RECURSIVE SumAffs(_)
SumAffs(I) ==
    IF I = {} THEN 0
    ELSE LET i == CHOOSE x \in I : TRUE IN affs[i] + SumAffs(I \ {i})

\* source sides that hold every source, no sink, and split no cross chunk edge
SourceSides ==
    {S \in SUBSET Nodes :
        /\ Range(sources) \subseteq S
        /\ Range(sinks) \cap S = {}
        /\ CrossingEdges(CrossRows, S) = {}}

\* the terminals can be separated by removing weighted edges only
Separable == SourceSides # {}

\* weight of the cheapest separation of the sources from the sinks, which is
\* the maximum flow from the fused sources to the fused sinks
MaxFlow ==
    Min({SumAffs({i \in DOMAIN edges : edges[i] \in CrossingEdges(Range(edges), S)}) :
            S \in SourceSides})

\* C1: after removing the returned edges no path remains between any source
\* and any sink of the un-coalesced graph (stated for the calls that return a
\* non-empty cut on terminals that weighted edges alone can separate).
C1_Soundness ==
    (Returned /\ ret.cut # {} /\ Separable) =>
        \A s \in Range(sources), t \in Range(sinks) :
            t \notin ReachFrom(RemainingEdges, {s})

\* C2: the sum of the affinities of the returned edges equals the maximum flow
\* from the source to the sink (stated for the calls with one source and one
\* sink that weighted edges alone can separate, on which a non-empty cut is
\* returned).
C2_Minimality ==
    (Returned /\ ret.cut # {} /\ Separable /\ Len(sources) = 1 /\ Len(sinks) = 1) =>
        SumAffs({i \in DOMAIN edges : edges[i] \in ret.cut}) = MaxFlow

\* C3: the returned cut holds no cross chunk edge, and the endpoints of every
\* cross chunk edge stay connected once the returned edges are removed.
C3_CrossChunkKept ==
    pc = "done" =>
        \A r \in CrossRows :
            /\ r \notin ret.cut
            /\ <<r[2], r[1]>> \notin ret.cut
            /\ r[2] \in ReachFrom(RemainingEdges, {r[1]})

C3_Witness ==
    /\ Returned
    /\ ret.cut # {}
    /\ CrossRows # {}
    /\ \E r \in CrossRows, c \in ret.cut : {r[1], r[2]} \cap {c[1], c[2]} # {}

\* representative of a node: the lowest id of its cross chunk component
Rep(n) == Min(ReachFrom(CrossRows, {n}))

\* the working graph in the words of the specification: weighted edges on
\* representatives, all sources fused, all sinks fused
WorkingEdges(rep) ==
    {<<rep[edges[i][1]], rep[edges[i][2]]>> :
        i \in {j \in DOMAIN edges : affs[j] # Inf}}
    \cup {<<rep[x], rep[y]>> : x \in Range(sources), y \in Range(sources)}
    \cup {<<rep[x], rep[y]>> : x \in Range(sinks), y \in Range(sinks)}

WorkingGraphBuilt == pc = "done" /\ \E i \in DOMAIN edges : affs[i] # Inf

\* some component holds a terminal but not every source and every sink
TerminalsApart ==
    LET rep == [n \in Nodes |-> Rep(n)]
        W == WorkingEdges(rep)
        terminals == {rep[x] : x \in Range(sources) \cup Range(sinks)}
    IN  \E x \in terminals : ~(terminals \subseteq ReachFrom(W, {x}))

\* C4: when a component of the working graph holds a terminal but not every
\* source and every sink, mincut yields no cut edges and does not run the flow
\* computation; otherwise (also when components without terminals exist) the
\* disconnected outcome does not happen.
C4_Disconnected ==
    WorkingGraphBuilt =>
        IF TerminalsApart
        THEN ret.outcome = "disconnected" /\ ret.cut = {} /\ ~ret.flow
        ELSE ret.outcome # "disconnected"

C4_Witness ==
    /\ WorkingGraphBuilt
    /\ TerminalsApart
    /\ ret.outcome = "disconnected"
    /\ \E t \in Range(sinks) : t \notin {r[1] : r \in Range(edges)} \cup {r[2] : r \in Range(edges)}

\* C5: every returned edge is a row of the input, and the returned set is the
\* set of input rows whose endpoints map to the two ends of an edge of the cut
\* of the coalesced graph.
C5_Uncoalesce ==
    Returned =>
        /\ ret.cut \subseteq Range(edges)
        /\ ret.cut =
            {edges[i] : i \in {j \in DOMAIN edges :
                \E c \in ret.cutset :
                    LET mp == merge_cross_chunk_edges(edges, affs).mapping
                    IN  {MappingLookup(mp, edges[j][1]), MappingLookup(mp, edges[j][2])}
                        = {c[1], c[2]}}}

C5_Witness ==
    /\ Returned
    /\ Cardinality(ret.cut) > Cardinality(ret.cutset)
    /\ \E c \in ret.cut : c[1] > c[2]

\* ---------------------------------------------------------------------------
\* Request handlers (app/segmentation/common.py)
\* ---------------------------------------------------------------------------
Abs(x) == IF x < 0 THEN -x ELSE x

\* the allowed maximum of the long range merge guard, in chunks
max_chunk_distance == 3

\* chunk coordinates of the two supervoxels of a merge request
ChunkAxis == {0, max_chunk_distance, MaxChunk}
Chunks == ChunkAxis \X ChunkAxis \X ChunkAxis
Origin == <<0, 0, 0>>
ChunkPairs ==
    {<<Origin, c>> : c \in Chunks}
    \cup {<<c, Origin>> : c \in {x \in Chunks : x[2] = 0 /\ x[3] = 0}}

\* values of the "priority" query argument
PriorityArgs == {"absent", "true", "false"}

str2bool(v) == v \in {"yes", "true", "t", "1"}

\* the default of the priority argument taken as False
is_priority_default_false(r) ==
    IF r.priority = "absent" THEN FALSE ELSE str2bool(r.priority)

\* request.args.get("priority", True, type=str2bool)
is_priority(r) == IF r.priority = "absent" THEN TRUE ELSE str2bool(r.priority)

Requests ==
    [kind : {"merge"}, table : Tables, user : Users, priority : PriorityArgs,
     operation_id : {0}, chunks : ChunkPairs, target : {""}, start_time : {0}]
    \cup
    [kind : {"split"}, table : Tables, user : Users, priority : PriorityArgs,
     operation_id : {0}, chunks : {<<NoChunk, NoChunk>>}, target : {""},
     start_time : {0}]
    \cup
    [kind : {"undo", "redo"}, table : Tables, user : Users,
     priority : PriorityArgs, operation_id : 1..MaxLog,
     chunks : {<<NoChunk, NoChunk>>}, target : {""}, start_time : {0}]
    \cup
    [kind : {"rollback"}, table : Tables, user : Users, priority : PriorityArgs,
     operation_id : {0}, chunks : {<<NoChunk, NoChunk>>}, target : Users,
     start_time : 0..MaxLog]

\* before_request: a new request arrives and the application context is reset.
\* A behaviour serves one request, on a graph whose log is any initial log.
BeforeRequest ==
    /\ hpc = "idle"
    /\ snap.served = 0
    /\ \E r \in Requests : req' = r
    /\ app' = NoApp
    /\ hpc' = "handler"
    /\ result' = NoResult
    /\ response' = NoResponse
    /\ trace' = <<>>
    /\ operations' = <<>>
    /\ snap' = [log |-> Len(log), published |-> Len(published),
                served |-> snap.served + 1]
    /\ UNCHANGED <<published, log>>
    /\ UNCHANGED cutVars
    /\ UNCHANGED workers

\* current_app.table_id = table_id; current_app.user_id = user_id
SetApp(r) == [user_id |-> r.user, table_id |-> r.table]

BadRequest(m) == [status |-> "BadRequest", msg |-> m]
InternalServerError(m) == [status |-> "InternalServerError", msg |-> m]
Uncaught(e) == [status |-> e, msg |-> ""]
Ok == [status |-> "ok", msg |-> ""]

\* np.any(np.abs(chunk_coord_delta) > 3)
\* the guard with >= for >
ChebyshevExceededInclusive(c) ==
    \E axis \in 1..3 : Abs(c[1][axis] - c[2][axis]) >= max_chunk_distance

ChebyshevExceeded(c) ==
    \E axis \in 1..3 : Abs(c[1][axis] - c[2][axis]) > max_chunk_distance

\* the deny list without fly_v31
DenyListShort == {"fly_v26"}

DenyList == {"fly_v26", "fly_v31"}

\* handle_merge up to the edit call: supervoxel lookup and long range guard
MergeGuard ==
    /\ hpc = "handler"
    /\ req.kind = "merge"
    /\ app' = SetApp(req)
    /\ trace' = Append(trace, "lookup")
    /\ IF ChebyshevExceeded(req.chunks)
       THEN /\ response' = BadRequest("chebyshev")
            /\ hpc' = "after"
       ELSE /\ response' = response
            /\ hpc' = "edit"
    /\ UNCHANGED <<req, result, published, log, snap, operations>>
    /\ UNCHANGED cutVars
    /\ UNCHANGED workers

\* handle_split up to the edit call
SplitEnter ==
    /\ hpc = "handler"
    /\ req.kind = "split"
    /\ app' = SetApp(req)
    /\ trace' = Append(trace, "lookup")
    /\ hpc' = "edit"
    /\ UNCHANGED <<req, result, response, published, log, snap, operations>>
    /\ UNCHANGED cutVars
    /\ UNCHANGED workers

\* handle_undo and handle_redo up to the edit call: the deny list
UndoRedoGuard ==
    /\ hpc = "handler"
    /\ req.kind \in {"undo", "redo"}
    /\ IF req.table \in DenyList
       THEN /\ response' = InternalServerError("not_supported")
            /\ hpc' = "after"
            /\ app' = app
       ELSE /\ response' = response
            /\ hpc' = "edit"
            /\ app' = SetApp(req)
    /\ UNCHANGED <<req, result, trace, published, log, snap, operations>>
    /\ UNCHANGED cutVars
    /\ UNCHANGED workers

\* the result of an edit: either list may be empty, new_root_ids may be None
Results(op) ==
    [operation_id : {op}, roots_none : {FALSE},
     new_root_ids : {<<>>, <<100 + op>>}, new_lvl2_ids : {<<>>, <<200 + op>>}]
    \cup
    [operation_id : {op}, roots_none : {TRUE},
     new_root_ids : {<<>>}, new_lvl2_ids : {<<>>, <<200 + op>>}]

EditErrors == {"LockingError", "PreconditionError", "PostconditionError"}

\* name of the graph call of a request
EditCall(r) ==
    CASE r.kind = "merge" -> "add_edges"
      [] r.kind = "split" -> "remove_edges"
      [] r.kind = "undo" -> "undo"
      [] r.kind = "redo" -> "redo"
      [] OTHER -> "undo_operation"

\* the operation log entry an edit writes when it succeeds
LogEntry(user, kind, of) ==
    [user |-> user, timestamp |-> Len(log) + 1, kind |-> kind, of |-> of]

\* the except clauses without PostconditionError in undo and redo
ConvertErrorNoPostcondition(r, e) ==
    IF e = "LockingError" THEN InternalServerError("lock")
    ELSE IF e = "PreconditionError" THEN BadRequest("precondition")
    ELSE Uncaught(e)

\* the except clauses around the edit call
ConvertError(r, e) ==
    IF e = "LockingError" THEN InternalServerError("lock")
    ELSE IF e = "PreconditionError" THEN BadRequest("precondition")
    ELSE IF r.kind \in {"merge", "split"} THEN Uncaught(e)
    ELSE BadRequest("postcondition")

\* the exception swallowed: the handler goes on to publish a result
EditRaisedSwallowed(e) ==
    [hpc |-> "publish",
     result |-> [operation_id |-> 0, roots_none |-> FALSE,
                 new_root_ids |-> <<>>, new_lvl2_ids |-> <<200>>]]

\* an exception of the edit call leaves the handler: nothing after the call
\* runs, the result stays unset
EditRaised(e) == [hpc |-> "after", result |-> NoResult]

\* the edit call of merge, split, undo and redo, with the handler's except
\* clauses and, for merge and split, the check of new_root_ids
Edit ==
    /\ hpc = "edit"
    /\ \/ \E res \in Results(Len(log) + 1) :
            /\ result' = res
            /\ log' = Append(log, LogEntry(req.user, req.kind, req.operation_id))
            /\ trace' = trace \o <<EditCall(req), "returned">>
            /\ IF req.kind \in {"merge", "split"} /\ res.roots_none
               THEN /\ response' = InternalServerError("no_roots")
                    /\ hpc' = "after"
               ELSE /\ response' = response
                    /\ hpc' = "publish"
       \/ \E e \in EditErrors :
            /\ result' = EditRaised(e).result
            /\ log' = log
            /\ trace' = trace \o <<EditCall(req), e>>
            /\ response' = ConvertError(req, e)
            /\ hpc' = EditRaised(e).hpc
    /\ UNCHANGED <<req, published, app, snap, operations>>
    /\ UNCHANGED cutVars
    /\ UNCHANGED workers

\* the message publish_edit hands to the messaging client
RemeshEvent(table_id, user_id, res, priority) ==
    [table_id |-> table_id, user_id |-> user_id,
     remesh_priority |-> IF priority THEN "true" ELSE "false",
     operation_id |-> res.operation_id,
     new_lvl2_ids |-> res.new_lvl2_ids,
     new_root_ids |-> res.new_root_ids]

\* the test made on new_root_ids instead of new_lvl2_ids
ShouldPublishRoots(res) == Len(res.new_root_ids) > 0

\* a remesh event is wanted when the edit made new level 2 ids
ShouldPublish(res) == Len(res.new_lvl2_ids) > 0

\* the end of merge, split, undo and redo: publish when level 2 ids changed
Publish ==
    /\ hpc = "publish"
    /\ IF ShouldPublish(result)
       THEN \/ /\ ~result.roots_none
               /\ published' = Append(published,
                     RemeshEvent(req.table, req.user, result, is_priority(req)))
               /\ trace' = Append(trace, "publish")
               /\ response' = Ok
            \/ /\ published' = published
               /\ trace' = Append(trace, "publish_failed")
               /\ response' = Uncaught("Exception")
       ELSE /\ published' = published
            /\ trace' = trace
            /\ response' = Ok
    /\ hpc' = "after"
    /\ UNCHANGED <<req, result, log, app, snap, operations>>
    /\ UNCHANGED cutVars
    /\ UNCHANGED workers

\* indices of the log rows of `user` with timestamp >= start, ascending
UserEntries(user, start) ==
    KeptIndices([i \in DOMAIN log |->
                    log[i].user = user /\ log[i].timestamp >= start], Len(log))

\* s sorted by timestamp, latest first
ReverseSeq(s) == [i \in DOMAIN s |-> s[Len(s) + 1 - i]]

\* handle_rollback up to the loop: deny list, all_user_operations, sort
RollbackGuard ==
    /\ hpc = "handler"
    /\ req.kind = "rollback"
    /\ IF req.table \in DenyList
       THEN /\ response' = InternalServerError("not_supported")
            /\ hpc' = "after"
            /\ app' = app
            /\ trace' = trace
            /\ operations' = operations
       ELSE /\ response' = response
            /\ hpc' = "rollback"
            /\ app' = SetApp(req)
            /\ trace' = Append(trace, "read_log_rows")
            /\ operations' = ReverseSeq(UserEntries(req.target, req.start_time))
    /\ UNCHANGED <<req, result, published, log, snap>>
    /\ UNCHANGED cutVars
    /\ UNCHANGED workers

\* the raise undoing the work of the earlier iterations
RollbackRaisedReverted(e) ==
    [hpc |-> "after", operations |-> operations,
     log |-> SubSeq(log, 1, snap.log),
     published |-> SubSeq(published, 1, snap.published)]

\* the exception caught and the loop carried on with the next operation
RollbackRaisedContinue(e) ==
    [hpc |-> "rollback", operations |-> Tail(operations),
     log |-> log, published |-> published]

\* an exception of undo_operation is raised anew inside the loop: the handler
\* is left at once, what the earlier iterations wrote and published stays
RollbackRaised(e) ==
    [hpc |-> "after", operations |-> operations,
     log |-> log, published |-> published]

\* the two users of a rollback with their parts exchanged
RollbackUsersSwapped(r) == [undo |-> r.user, event |-> r.target]

\* the users of a rollback: undo_operation runs as the target user, the
\* remesh event names the authenticated user who asked for the rollback
RollbackUsers(r) == [undo |-> r.target, event |-> r.user]

\* one iteration of the rollback loop: undo_operation and its remesh event
RollbackUndo ==
    /\ hpc = "rollback"
    /\ operations # <<>>
    /\ \/ \E res \in Results(Len(log) + 1) :
            /\ result' = res
            /\ log' = Append(log, LogEntry(RollbackUsers(req).undo, "undo",
                                           Head(operations)))
            /\ operations' = Tail(operations)
            /\ IF ShouldPublish(res)
               THEN \/ /\ ~res.roots_none
                       /\ published' = Append(published,
                             RemeshEvent(req.table, RollbackUsers(req).event,
                                         res, FALSE))
                       /\ trace' = trace \o <<"undo_operation", "returned", "publish">>
                       /\ response' = response
                       /\ hpc' = hpc
                    \/ /\ published' = published
                       /\ trace' = trace \o <<"undo_operation", "returned", "publish_failed">>
                       /\ response' = Uncaught("Exception")
                       /\ hpc' = "after"
               ELSE /\ published' = published
                    /\ trace' = trace \o <<"undo_operation", "returned">>
                    /\ response' = response
                    /\ hpc' = hpc
       \/ \E e \in EditErrors :
            /\ result' = result
            /\ log' = RollbackRaised(e).log
            /\ operations' = RollbackRaised(e).operations
            /\ published' = RollbackRaised(e).published
            /\ trace' = trace \o <<"undo_operation", e>>
            /\ response' = IF e = "LockingError"
                           THEN InternalServerError("lock")
                           ELSE BadRequest("undo")
            /\ hpc' = RollbackRaised(e).hpc
    /\ UNCHANGED <<req, app, snap>>
    /\ UNCHANGED cutVars
    /\ UNCHANGED workers

\* the rollback loop is over: the handler returns
RollbackReturn ==
    /\ hpc = "rollback"
    /\ operations = <<>>
    /\ response' = Ok
    /\ hpc' = "after"
    /\ UNCHANGED <<req, result, trace, published, log, app, snap, operations>>
    /\ UNCHANGED cutVars
    /\ UNCHANGED workers

\* after_request: the request is over and its context is dropped; the
\* attributes set on current_app stay until the next before_request
AfterRequest ==
    /\ hpc = "after"
    /\ hpc' = "idle"
    /\ req' = NoReq
    /\ result' = NoResult
    /\ response' = NoResponse
    /\ trace' = <<>>
    /\ operations' = <<>>
    /\ UNCHANGED <<published, log, app, snap>>
    /\ UNCHANGED cutVars
    /\ UNCHANGED workers

Init ==
    /\ HandlersIdle
    /\ workers = WorkersIdle
    /\ log \in InitLogs
    /\ pc = "idle"
    /\ ret = NoRet
    /\ edges = <<>>
    /\ affs = <<>>
    /\ sources = <<>>
    /\ sinks = <<>>

Next ==
    \/ BeforeRequest
    \/ MergeGuard
    \/ SplitEnter
    \/ UndoRedoGuard
    \/ Edit
    \/ Publish
    \/ RollbackGuard
    \/ RollbackUndo
    \/ RollbackReturn
    \/ AfterRequest

Spec == Init /\ [][Next]_vars

\* ---------------------------------------------------------------------------
\* Properties of the request handlers
\* ---------------------------------------------------------------------------
Last(q) == q[Len(q)]

Edits == {"merge", "split", "undo", "redo"}

\* the handler of the request has passed its guard
PastGuard == hpc \in {"edit", "publish", "rollback", "after"}

NothingPublished == Len(published) = snap.published
LogUnchanged == Len(log) = snap.log

\* largest difference of the two chunk coordinates over the axes
ChebyshevDistance(c) == Max({Abs(c[1][k] - c[2][k]) : k \in 1..3})

\* C6: a merge whose supervoxels lie more than 3 chunks apart in some axis is
\* rejected with BadRequest, add_edges is not called and nothing is
\* published; at distance 3 or less the guard does not reject.
C6_ChebyshevGuard ==
    (req.kind = "merge" /\ PastGuard) =>
        IF ChebyshevDistance(req.chunks) > 3
        THEN /\ hpc = "after"
             /\ response = BadRequest("chebyshev")
             /\ "add_edges" \notin Range(trace)
             /\ NothingPublished
             /\ LogUnchanged
        ELSE /\ response # BadRequest("chebyshev")
             /\ hpc = "after" => "add_edges" \in Range(trace)

C6_Witness ==
    /\ req.kind = "merge"
    /\ req.chunks = <<Origin, <<4, 0, 0>>>>
    /\ hpc = "after"
    /\ response = BadRequest("chebyshev")

\* C7: on fly_v26 and fly_v31 undo, redo and rollback are rejected at once:
\* no log read, no edit call, no event, log and application context
\* untouched; on any other table the deny list does not reject.
C7_DenyList ==
    (req.kind \in {"undo", "redo", "rollback"} /\ PastGuard) =>
        IF req.table \in {"fly_v26", "fly_v31"}
        THEN /\ hpc = "after"
             /\ response = InternalServerError("not_supported")
             /\ trace = <<>>
             /\ operations = <<>>
             /\ NothingPublished
             /\ LogUnchanged
             /\ app = NoApp
        ELSE response # InternalServerError("not_supported")

C7_Witness ==
    /\ req.kind = "rollback"
    /\ req.table = "fly_v31"
    /\ hpc = "after"
    /\ \E i \in DOMAIN log : log[i].user = req.target
    /\ response = InternalServerError("not_supported")

\* the request was aborted before or by the edit call
Aborted ==
    \/ response \in {BadRequest("chebyshev"), InternalServerError("not_supported")}
    \/ \E i \in DOMAIN trace : trace[i] \in EditErrors

\* C8: in merge, split, undo and redo a remesh event is published only after
\* the edit call has returned, and a request aborted before or by the edit
\* publishes nothing.
C8_PublishAfterEdit ==
    req.kind \in Edits =>
        /\ \A j \in DOMAIN trace :
              trace[j] \in {"publish", "publish_failed"} =>
                  /\ j >= 3
                  /\ trace[j - 1] = "returned"
                  /\ trace[j - 2] = EditCall(req)
        /\ ~NothingPublished => "publish" \in Range(trace)
        /\ Aborted => NothingPublished /\ "publish" \notin Range(trace)

C8_Witness ==
    /\ req.kind = "split"
    /\ hpc = "after"
    /\ trace = <<"lookup", "remove_edges", "returned", "publish">>
    /\ Len(published) = snap.published + 1

\* the edit of the request returned a result
EditReturned == req.kind \in Edits /\ hpc = "after" /\ "returned" \in Range(trace)

\* C9 as stated: every merge, split, undo or redo whose edit commits is
\* followed, before the request completes, by the emission of a remesh event
\* for that operation (stated for the requests that complete successfully).
C9_AlwaysEmits ==
    (EditReturned /\ response = Ok) =>
        /\ Len(published) = snap.published + 1
        /\ Last(published).operation_id = result.operation_id

\* C9 amended: when the edit returns a result with new level 2 ids (and, in
\* merge and split, with new_root_ids not None) publish_edit is called for it
\* before the request completes, and an event it publishes is the one of that
\* operation; when the result holds no new level 2 ids nothing is published.
C9_EmitsWhenLvl2Changed ==
    EditReturned =>
        IF /\ Len(result.new_lvl2_ids) > 0
           /\ ~(req.kind \in {"merge", "split"} /\ result.roots_none)
        THEN /\ Last(trace) \in {"publish", "publish_failed"}
             /\ Last(trace) = "publish" =>
                   /\ Len(published) = snap.published + 1
                   /\ Last(published).operation_id = result.operation_id
                   /\ response = Ok
             /\ Last(trace) = "publish_failed" => NothingPublished
        ELSE /\ NothingPublished
             /\ Last(trace) = "returned"

C9_Witness ==
    /\ EditReturned
    /\ req.kind = "undo"
    /\ Len(result.new_lvl2_ids) > 0
    /\ Len(result.new_root_ids) = 0
    /\ Last(trace) = "publish"

\* the edit call of the request raised e
EditFailed(e) ==
    req.kind \in Edits /\ hpc = "after" /\ trace # <<>> /\ Last(trace) = e

\* a response with a 4xx status
ClientError == response.status = "BadRequest"
\* a response with status 500
InternalError ==
    response.status \in {"InternalServerError", "PostconditionError", "Exception"}

\* C10 as stated: a Locking error becomes a client error, a Precondition
\* error BadRequest, a Postcondition error an internal error.
C10_ConversionAsStated ==
    /\ EditFailed("LockingError") => ClientError
    /\ EditFailed("PreconditionError") => response.status = "BadRequest"
    /\ EditFailed("PostconditionError") => InternalError

\* C10 amended: a Locking error becomes InternalServerError, a Precondition
\* error BadRequest; a Postcondition error becomes BadRequest in undo and
\* redo and leaves merge and split unconverted.
C10_Conversion ==
    /\ EditFailed("LockingError") => response = InternalServerError("lock")
    /\ EditFailed("PreconditionError") => response.status = "BadRequest"
    /\ EditFailed("PostconditionError") =>
          IF req.kind \in {"undo", "redo"}
          THEN response.status = "BadRequest"
          ELSE response = Uncaught("PostconditionError")

C10_Witness ==
    /\ EditFailed("PostconditionError")
    /\ req.kind = "redo"
    /\ response.status = "BadRequest"

\* C11: when the edit behind a merge or split returns a result whose
\* new_root_ids is empty, the request ends with an internal error instead of
\* returning that result.
C11_EmptyRootsError ==
    (/\ req.kind \in {"merge", "split"}
     /\ hpc = "after"
     /\ "returned" \in Range(trace)
     /\ Len(result.new_root_ids) = 0) => InternalError

\* C12: a failure of publish_edit after the edit has returned is swallowed:
\* the merge, split, undo or redo request still completes successfully.
C12_PublishFailureSwallowed ==
    (/\ req.kind \in Edits
     /\ hpc = "after"
     /\ trace # <<>>
     /\ Last(trace) = "publish_failed") => response = Ok

\* ---------------------------------------------------------------------------
\* Properties of rollback
\* ---------------------------------------------------------------------------
\* number of occurrences of x in the trace of the request
Count(x) == Cardinality({i \in DOMAIN trace : trace[i] = x})

\* the rollback request has left its handler
RollbackOver == req.kind = "rollback" /\ hpc = "after" /\ trace # <<>>

\* operation ids of the undo_operation calls that returned, in call order
UndoCalls == [k \in 1..(Len(log) - snap.log) |-> log[snap.log + k].of]

\* entry i of the log the request started on was undone by a later entry
AlreadyUndone(i) ==
    \E j \in 1..snap.log : log[j].kind = "undo" /\ log[j].of = i

\* the entries of the target user since start_time that are not yet undone
ToUndo ==
    {i \in 1..snap.log :
        /\ log[i].user = req.target
        /\ log[i].timestamp >= req.start_time
        /\ ~AlreadyUndone(i)}

\* the entries of S, latest timestamp first
ByTimestampDescending(S) ==
    CHOOSE s \in [1..Cardinality(S) -> S] :
        \A i \in DOMAIN s, j \in DOMAIN s :
            i < j => log[s[i]].timestamp > log[s[j]].timestamp

\* C13: the undo calls issued by a rollback are exactly the operations logged
\* by the target user since start_time that are not already undone, each
\* once, latest timestamp first (stated for the rollbacks in which every
\* undo returned).
C13_RollbackSequence ==
    (RollbackOver /\ response = Ok) =>
        UndoCalls = ByTimestampDescending(ToUndo)

\* an undo of the rollback raised
UndoFailed == RollbackOver /\ \E i \in DOMAIN trace : trace[i] \in EditErrors

\* C14: when an undo fails during rollback the error is surfaced to the
\* caller, and the undos that returned earlier in the same rollback stay in
\* the log, with their remesh events published.
C14_PriorSuccessesKept ==
    UndoFailed =>
        /\ response.status \in {"BadRequest", "InternalServerError"}
        /\ Len(log) - snap.log = Count("returned")
        /\ \A k \in (snap.log + 1)..Len(log) :
              log[k].kind = "undo" /\ log[k].user = req.target
        /\ Len(published) - snap.published = Count("publish")

C14_Witness ==
    /\ UndoFailed
    /\ Last(trace) = "PreconditionError"
    /\ Len(log) > snap.log
    /\ Len(published) > snap.published

\* undo_operation calls made by the rollback
Attempted == Count("undo_operation")

\* the operations the rollback read from the log
Planned ==
    Cardinality({i \in 1..snap.log :
        log[i].user = req.target /\ log[i].timestamp >= req.start_time})

\* C20 as stated: when an undo fails, every remaining operation of the target
\* user is still attempted.
C20_ContinuesAfterFailure == UndoFailed => Attempted = Planned

\* C20 amended: the first undo that fails ends the rollback: its error is
\* the last step of the handler and the operations after it are not
\* attempted.
C20_StopsAtFailure ==
    UndoFailed =>
        /\ Last(trace) \in EditErrors
        /\ Cardinality({i \in DOMAIN trace : trace[i] \in EditErrors}) = 1
        /\ operations # <<>>
        /\ Attempted = Planned - Len(operations) + 1

C20_Witness ==
    /\ UndoFailed
    /\ Len(operations) >= 2
    /\ Attempted = 1
    /\ Planned = 2

\* ---------------------------------------------------------------------------
\* Properties of the remesh events
\* ---------------------------------------------------------------------------
\* the value of remesh_priority the request asks for
WantedPriority ==
    IF req.kind = "rollback" THEN "false"
    ELSE IF req.priority \in {"absent", "true"} THEN "true"
    ELSE "false"

\* C15: every step that publishes appends one remesh event, which carries
\* the operation_id, new_lvl2_ids and new_root_ids of the edit result that
\* triggered it, the table_id of the request, and remesh_priority "true"
\* exactly when the priority flag of the request is true (true when absent);
\* the events of a rollback carry "false" whatever the flag.
C15_EventPayload ==
    [][published' # published =>
          /\ Len(published') = Len(published) + 1
          /\ SubSeq(published', 1, Len(published)) = published
          /\ LET event == published'[Len(published')]
             IN  /\ event.operation_id = result'.operation_id
                 /\ event.new_lvl2_ids = result'.new_lvl2_ids
                 /\ event.new_root_ids = result'.new_root_ids
                 /\ event.table_id = req.table
                 /\ event.remesh_priority = WantedPriority]_vars

C15_Witness ==
    /\ req.kind = "rollback"
    /\ req.priority = "true"
    /\ Len(published) = snap.published + 2
    /\ \A k \in (snap.published + 1)..Len(published) :
          published[k].remesh_priority = "false"

\* ---------------------------------------------------------------------------
\* Properties of mincut: rejections, short circuits, mapping
\* ---------------------------------------------------------------------------
\* the ways a call of mincut raises
Raised == {"AssertionError", "NetworkXError", "IndexError"}

\* a node is both a source and a sink
SharedTerminal == Range(sources) \cap Range(sinks) # {}

\* a source and a sink lie in one cross chunk component
CoalescedTerminals ==
    \E s \in Range(sources), t \in Range(sinks) : s # t /\ Rep(s) = Rep(t)

\* C16: terminals that cannot be separated are rejected instead of producing
\* a cut: with a node in both sources and sinks mincut fails with an error,
\* and with a source and a sink in one cross chunk component mincut stops at
\* the connectivity check or fails with an error (stated for the calls that
\* get past the early return on no weighted edges).
C16_InseparableRejected ==
    WorkingGraphBuilt =>
        /\ SharedTerminal => ret.outcome \in Raised
        /\ CoalescedTerminals => ret.outcome \in Raised \cup {"disconnected"}

\* C17: mincut returns an empty result without raising when `edges` is
\* empty; the cut computed on the coalesced graph is never empty, so the
\* read of its first element never raises, and a computed cut none of whose
\* edges is a row of the input is returned as an empty result.
C17_EmptyResults ==
    pc = "done" =>
        /\ Len(edges) = 0 => ret.outcome = "no_edges" /\ ret.cut = {}
        /\ ret.outcome # "IndexError"
        /\ ret.outcome = "cut" => ret.cutset # {}
        /\ (ret.flow /\ ret.outcome \notin Raised
              /\ \A c \in ret.cutset, r \in Range(edges) :
                    {Rep(r[1]), Rep(r[2])} # {c[1], c[2]})
           => ret.outcome = "cut" /\ ret.cut = {}

C17_Witness ==
    /\ pc = "done"
    /\ Len(edges) = 0
    /\ SharedTerminal
    /\ ret.outcome = "no_edges"
    /\ ret.cut = {}

\* the nodes seen in the input rows
SeenNodes == {r[1] : r \in Range(edges)} \cup {r[2] : r \in Range(edges)}

\* C19: the mapping built by merge_cross_chunk_edges has every node seen in
\* `edges` exactly once as a key (the assertion of mincut does not fail), a
\* node of a cross chunk component maps to the lowest id of the component and
\* any other node to itself.
C19_MappingFunction ==
    pc = "done" =>
        /\ {m[1] : m \in ret.mapping} = SeenNodes
        /\ \A x \in ret.mapping, y \in ret.mapping : x[1] = y[1] => x = y
        /\ ret.outcome # "AssertionError"
        /\ \A m \in ret.mapping :
              /\ m[2] = Min(ReachFrom(CrossRows, {m[1]}))
              /\ (\A r \in CrossRows : m[1] \notin {r[1], r[2]}) => m[2] = m[1]

C19_Witness ==
    /\ pc = "done"
    /\ ret.outcome = "cut"
    /\ \E m \in ret.mapping : m[2] < m[1] /\ <<m[2], m[1]>> \notin CrossRows
                              /\ <<m[1], m[2]>> \notin CrossRows
    /\ \E m \in ret.mapping : m[2] = m[1] /\ \A r \in CrossRows : m[1] \notin {r[1], r[2]}

\* the orders the rows of a list of n rows can be given in
RowOrders(n) ==
    {p \in [1..n -> 1..n] : \A i \in 1..n, j \in 1..n : p[i] = p[j] => i = j}

\* the list s with its rows in the order p
Reordered(s, p) == [i \in DOMAIN s |-> s[p[i]]]

\* the rows of a cut without their orientation
Unoriented(cut) == {Und(c[1], c[2]) : c \in cut}

C22_RollbackAttribution ==
    req.kind = "rollback" =>
        /\ \A k \in (snap.log + 1)..Len(log) :
              log[k].kind = "undo" /\ log[k].user = req.target
        /\ \A k \in (snap.published + 1)..Len(published) :
              /\ published[k].user_id = req.user
              /\ \E j \in (snap.log + 1)..Len(log) :
                    /\ published[k].operation_id = j
                    /\ log[j].user = req.target

C22_Witness ==
    /\ req.kind = "rollback"
    /\ req.user # req.target
    /\ hpc = "after"
    /\ response = Ok
    /\ Len(log) = snap.log + 2
    /\ Len(published) = snap.published + 2

\* ---------------------------------------------------------------------------
\* Requests served side by side (current_app is one object per process)
\* ---------------------------------------------------------------------------
\* the state of the handlers of a single request, left alone by the workers
singleRequestVars ==
    <<req, hpc, result, response, trace, published, log, snap, operations>>

InitWorkers ==
    /\ HandlersIdle
    /\ workers = WorkersIdle
    /\ log = <<>>
    /\ pc = "idle"
    /\ ret = NoRet
    /\ edges = <<>>
    /\ affs = <<>>
    /\ sources = <<>>
    /\ sinks = <<>>

\* before_request on worker w: a request of some user on some table arrives
\* and the attributes of current_app are reset
WorkerBeforeRequest(w) ==
    /\ workers[w].pc = "idle"
    /\ \E u \in Users, t \in Tables :
          workers' = [workers EXCEPT ![w].pc = "handler",
                                     ![w].user = u, ![w].table = t]
    /\ app' = NoApp
    /\ UNCHANGED singleRequestVars
    /\ UNCHANGED cutVars

\* the handler on worker w: current_app.table_id = table_id
WorkerSetTable(w) ==
    /\ workers[w].pc = "handler"
    /\ app' = [app EXCEPT !.table_id = workers[w].table]
    /\ workers' = [workers EXCEPT ![w].pc = "table_set"]
    /\ UNCHANGED singleRequestVars
    /\ UNCHANGED cutVars

\* the handler on worker w: current_app.user_id = user_id, then the rest of
\* the handler, which does not write to current_app
WorkerSetUser(w) ==
    /\ workers[w].pc = "table_set"
    /\ app' = [app EXCEPT !.user_id = workers[w].user]
    /\ workers' = [workers EXCEPT ![w].pc = "after"]
    /\ UNCHANGED singleRequestVars
    /\ UNCHANGED cutVars

\* what after_request hands to add_success_log from current_app: nothing
\* when table_id is None, "" for a user_id of None
SuccessLog(a) ==
    IF a.table_id = "None" THEN NoLogged
    ELSE [written |-> TRUE,
          user_id |-> IF a.user_id = "None" THEN "" ELSE a.user_id,
          table_id |-> a.table_id]

\* after_request on worker w
WorkerAfterRequest(w) ==
    /\ workers[w].pc = "after"
    /\ workers' = [workers EXCEPT ![w].pc = "done",
                                  ![w].logged = SuccessLog(app)]
    /\ app' = app
    /\ UNCHANGED singleRequestVars
    /\ UNCHANGED cutVars

NextWorkers ==
    \/ \E w \in Workers : WorkerBeforeRequest(w)
    \/ \E w \in Workers : WorkerSetTable(w)
    \/ \E w \in Workers : WorkerSetUser(w)
    \/ \E w \in Workers : WorkerAfterRequest(w)

SpecWorkers == InitWorkers /\ [][NextWorkers]_vars

\* C21: the user_id and table_id that after_request uses for a request are
\* the ones the handler of that same request set, whatever the other worker
\* does in between.
C21_ContextNotShared ==
    \A w \in Workers :
        workers[w].pc = "done" =>
            workers[w].logged = [written |-> TRUE,
                                 user_id |-> workers[w].user,
                                 table_id |-> workers[w].table]

====
